---- MODULE Spec2Model ----
(***************************************************************************)
(* Model of coursera/extractors.py (CourseraExtractor) over the peewee     *)
(* catalog of coursera/models.py.                                          *)
(*                                                                         *)
(* One CourseraExtractor works against the database file coursera-dl.db.   *)
(* The operations are __init__, create_db_course and get_modules; the last *)
(* two are followed statement by statement with a program counter, so that *)
(* the position of every catalog write and of every extraction call is     *)
(* visible.  What the network returns (the syllabus page, the flat item    *)
(* index, the reference poll, the result of each extraction routine) is an *)
(* input, drawn from the small sets below.                                 *)
(***************************************************************************)
EXTENDS Integers, Sequences, FiniteSets, TLC

(* ------------------------------------------------------------------ *)
(* Bounds                                                             *)
(* ------------------------------------------------------------------ *)

\* number of get_modules calls followed in one behaviour
MaxRuns == 2

\* number of times the database file is lost from outside (SpecEnv only)
MaxRemovals == 1

(* ------------------------------------------------------------------ *)
(* Inputs: what the platform serves                                   *)
(* ------------------------------------------------------------------ *)

\* the three results of an extraction routine: None (an error occurred),
\* {} (no data) and a populated link map (extractors.py:212-214)
LinksNone == "None"
LinksEmpty == "{}"
LinksSome == "{links}"
Results == {LinksNone, LinksEmpty, LinksSome}

\* Python truthiness of a link map that is not None (extractors.py:271, 305)
Truthy(links) == links = LinksSome

ClassNames == {"c1", "c2"}

\* what OPENCOURSE_V1 answers for a class name: (name, id) of elements[0];
\* the display name of c1 has been edited upstream once
CourseInfos(class_name) ==
    IF class_name = "c1"
    THEN {[name |-> "Course One", id |-> "C1"],
          [name |-> "Course One (2nd ed.)", id |-> "C1"]}
    ELSE {[name |-> "Course Two", id |-> "C2"]}

Mod(id, name, lessonIds) ==
    [id |-> id, name |-> name, slug |-> id, description |-> "", lessonIds |-> lessonIds]
Les(id, itemIds) ==
    [id |-> id, name |-> id, slug |-> id, itemIds |-> itemIds]
Itm(id, type_name) ==
    [id |-> id, name |-> id, slug |-> id, type_name |-> type_name]
Ref(id, shortId) ==
    [id |-> id, shortId |-> shortId, name |-> id, slug |-> id]

AllKeys == {"elements", "linked", "modules", "lessons", "items"}

\* The syllabus pages served.  keys: the structural keys the JSON holds
\* ("modules", "lessons", "items" stand for the three tables under "linked").
\* flat: the separately fetched flat item index, by lesson id.
\* refs: what the reference poll answers for the course.
PageA ==
    [class_name |-> "c1", keys |-> AllKeys, class_id |-> "C1",
     modules |-> <<Mod("m1", "Week 1", <<"l1">>), Mod("m2", "Week 2", <<"l2", "l3">>)>>,
     lessons |-> <<Les("l1", <<"i1", "i2">>), Les("l2", <<>>), Les("l3", <<>>)>>,
     items   |-> <<Itm("i1", "lecture"), Itm("i2", "quiz")>>,
     flat    |-> <<Itm("i3", "gradedProgramming")>>,
     flatOf  |-> <<"l2">>,
     refs    |-> <<Ref("r1", "s1")>>]

\* the same course after module m2 was renamed upstream
PageA2 ==
    [PageA EXCEPT !.modules = <<Mod("m1", "Week 1", <<"l1">>),
                                Mod("m2", "Week 2 (new)", <<"l2", "l3">>)>>,
                  !.flat = <<Itm("i3", "ungradedProgramming")>>]

PageB ==
    [class_name |-> "c2", keys |-> AllKeys, class_id |-> "C2",
     modules |-> <<Mod("m3", "Intro", <<"l4">>), Mod("m4", "Final", <<"l5", "l8">>)>>,
     lessons |-> <<Les("l4", <<"i4", "i5", "i6">>), Les("l5", <<"i7">>),
                   Les("l8", <<"i8">>)>>,
     items   |-> <<Itm("i4", "notebook"), Itm("i5", "notebook"),
                   Itm("i6", "discussionPrompt"),
                   Itm("i7", "exam"), Itm("i8", "programming")>>,
     flat    |-> <<>>,
     flatOf  |-> <<>>,
     refs    |-> <<>>]

PageC ==
    [class_name |-> "c2", keys |-> AllKeys, class_id |-> "C2",
     modules |-> <<Mod("m5", "Extras", <<"l6">>)>>,
     lessons |-> <<Les("l6", <<"i9", "i11", "i10">>)>>,
     items   |-> <<Itm("i9", "supplement"), Itm("i10", "phasedPeer"),
                   Itm("i11", "widget")>>,
     flat    |-> <<>>,
     flatOf  |-> <<>>,
     refs    |-> <<Ref("r2", "s2"), Ref("r3", "s3")>>]

\* malformed pages: no "elements" key; no lessons table under "linked"
PageNoElements == [PageB EXCEPT !.keys = AllKeys \ {"elements"}]
PageNoLessons == [PageB EXCEPT !.keys = AllKeys \ {"lessons"}]

PageNames == {"A", "A2", "B", "C", "noElements", "noLessons"}

Page(p) ==
    CASE p = "A" -> PageA
      [] p = "A2" -> PageA2
      [] p = "B" -> PageB
      [] p = "C" -> PageC
      [] p = "noElements" -> PageNoElements
      [] OTHER -> PageNoLessons


(* ------------------------------------------------------------------ *)
(* Helpers of the collaborators (coursera/api.py, peewee)             *)
(* ------------------------------------------------------------------ *)

Range(seq) == {seq[k] : k \in 1..Len(seq)}

Reverse(seq) == [k \in 1..Len(seq) |-> seq[Len(seq) + 1 - k]]

\* parent.children(all): the records of `all` the parent's id list names,
\* in the order of that list (the join of the linked tables by id)
Children(ids, all) ==
    [k \in 1..Len(ids) |-> CHOOSE x \in Range(all) : x.id = ids[k]]

\* ondemand_material_items.get(section.id): the item the flat index holds
\* for the lesson, as a list of at most one (None is the empty list)
FlatGet(p, section_id) ==
    LET hits == {k \in 1..Len(Page(p).flatOf) : Page(p).flatOf[k] = section_id}
    IN  IF hits = {} THEN <<>> ELSE <<Page(p).flat[CHOOSE k \in hits : TRUE]>>

\* variant: an existing external id is overwritten with the new attributes
GetOrCreateOverwrite(table, kwargs, unique) ==
    LET clash == {r \in table : \E f \in unique : r[f] = kwargs[f]}
        old   == CHOOSE r \in clash : TRUE
        row   == kwargs @@ ("id" :> IF clash = {} THEN Cardinality(table) + 1 ELSE old.id)
    IN  [table |-> (table \ clash) \cup {row}, pk |-> row.id, exc |-> "none"]

\* variant: no lookup, no unique check
GetOrCreateAlwaysInsert(table, kwargs, unique) ==
    LET row == kwargs @@ ("id" :> Cardinality(table) + 1)
    IN  [table |-> table \cup {row}, pk |-> row.id, exc |-> "none"]

\* Model.get_or_create(**kwargs) of peewee with no defaults=: every keyword
\* is part of the lookup; a miss inserts, and an insert that breaks a
\* unique=True column raises IntegrityError (the second lookup misses too).
\* The primary key is the autoincrement id.
GetOrCreate(table, kwargs, unique) ==
    LET found == {r \in table : \A f \in DOMAIN kwargs : r[f] = kwargs[f]}
        clash == {r \in table : \E f \in unique : r[f] = kwargs[f]}
        row   == kwargs @@ ("id" :> Cardinality(table) + 1)
    IN  IF found # {}
        THEN [table |-> table, pk |-> (CHOOSE r \in found : TRUE).id, exc |-> "none"]
        ELSE IF clash # {}
        THEN [table |-> table, pk |-> 0, exc |-> "IntegrityError"]
        ELSE [table |-> table \cup {row}, pk |-> row.id, exc |-> "none"]

\* the keyword arguments and unique columns of the five call sites
CourseKw(course_id, course_name_string, class_name) ==
    [course_id |-> course_id, course_name_string |-> course_name_string,
     course_slug |-> class_name]
CourseUnique == {"course_id", "course_slug"}

ModuleKw(course_pk, module) ==
    [course |-> course_pk, module_id |-> module.id, name |-> module.name,
     slug |-> module.slug, description |-> module.description]
ModuleUnique == {"module_id"}

LessonKw(module_pk, section) ==
    [module |-> module_pk, name |-> section.name, slug |-> section.slug,
     lesson_id |-> section.id]
LessonUnique == {"lesson_id"}

\* variant: the lesson's key passed for the module as well
ItemKwLessonForModule(lesson_pk, module_pk, lecture) ==
    [lesson |-> lesson_pk, module |-> lesson_pk, item_id |-> lecture.id,
     name |-> lecture.name, slug |-> lecture.slug, type_name |-> lecture.type_name]

ItemKw(lesson_pk, module_pk, lecture) ==
    [lesson |-> lesson_pk, module |-> module_pk, item_id |-> lecture.id,
     name |-> lecture.name, slug |-> lecture.slug, type_name |-> lecture.type_name]
ItemUnique == {"item_id"}

ReferenceKw(course_pk, json_reference) ==
    [ref_id |-> json_reference.id, short_id |-> json_reference.shortId,
     course |-> course_pk, name |-> json_reference.name, slug |-> json_reference.slug]
ReferenceUnique == {"ref_id", "short_id"}

Kinds == {"Course", "Module", "Lesson", "Item", "Reference"}

EmptyDb == [k \in Kinds |-> {}]

(* ------------------------------------------------------------------ *)
(* The dispatch on the content-type tag (extractors.py:216-267)       *)
(* ------------------------------------------------------------------ *)

AlwaysTypes == {"lecture", "supplement", "phasedPeer", "gradedProgramming",
                "ungradedProgramming"}
QuizTypes == {"quiz", "exam", "programming"}

\* the extraction routine of a type tag; "unsupported" is the else branch
Routine(typename) ==
    CASE typename = "lecture" -> "extract_links_from_lecture"
      [] typename = "supplement" -> "extract_links_from_supplement"
      [] typename = "phasedPeer" -> "extract_links_from_peer_assignment"
      [] typename \in {"gradedProgramming", "ungradedProgramming"} ->
             "extract_links_from_programming"
      [] typename = "quiz" -> "extract_links_from_quiz"
      [] typename = "exam" -> "extract_links_from_exam"
      [] typename = "programming" ->
             "extract_links_from_programming_immediate_instructions"
      [] typename = "notebook" -> "extract_links_from_notebook"
      [] OTHER -> "unsupported"

\* variant: quizzes extracted whatever the flag
QuizGateOpen(dq) == TRUE

QuizGate(dq) == dq

\* variant: the one-shot guard left out
NotebookGateNoGuard(dn, downloaded) == dn

\* variant: the policy flag left out
NotebookGateNoPolicy(dn, downloaded) == ~downloaded

NotebookGate(dn, downloaded) == dn /\ ~downloaded

\* whether the routine of the type tag is called
Invoked(typename, dq, dn, downloaded) ==
    CASE typename \in AlwaysTypes -> TRUE
      [] typename \in QuizTypes -> QuizGate(dq)
      [] typename = "notebook" -> NotebookGate(dn, downloaded)
      [] OTHER -> FALSE

\* variant: None not recorded
ErrorAfterSticky(error, links) == error

\* extractors.py:269-270 and 303-304
ErrorAfter(error, links) == error \/ links = LinksNone

\* variant: the empty map appended too
AppendLinksAlways(list, slug, links) ==
    IF links # LinksNone THEN Append(list, <<slug, links>>) ELSE list

\* extractors.py:271-272
AppendLinks(list, slug, links) ==
    IF links # LinksNone /\ Truthy(links) THEN Append(list, <<slug, links>>) ELSE list

\* variant: empty lists appended too
AppendEntryAlways(list, slug, children) == Append(list, <<slug, children>>)

\* extractors.py:274-275, 277-278, 308-309
AppendEntry(list, slug, children) ==
    IF children # <<>> THEN Append(list, <<slug, children>>) ELSE list

\* variant: the flat index asked for every lesson
ConsultsAlways(available) == TRUE

\* extractors.py:196: whether the flat index is asked
Consults(available) == available = <<>>

\* variant: the flat index never used
FallbackNever(available, p, section_id) == available

\* extractors.py:196-199
Fallback(available, p, section_id) ==
    IF Consults(available) /\ FlatGet(p, section_id) # <<>>
    THEN FlatGet(p, section_id)
    ELSE available

\* variant: the lesson lists reversed too
ReverseDeep(mods, rev) ==
    IF mods # <<>> /\ rev
    THEN Reverse([k \in 1..Len(mods) |-> <<mods[k][1], Reverse(mods[k][2])>>])
    ELSE mods

\* extractors.py:280-281
ReverseModules(mods, rev) ==
    IF mods # <<>> /\ rev THEN Reverse(mods) ELSE mods

\* variant: the Resources entry put in front
AppendResourcesFirst(mods, refs) ==
    IF refs # <<>> THEN <<<<"Resources", refs>>>> \o mods ELSE mods

\* extractors.py:311-312
AppendResources(mods, refs) ==
    IF refs # <<>> THEN Append(mods, <<"Resources", refs>>) ELSE mods


(* ------------------------------------------------------------------ *)
(* State                                                              *)
(* ------------------------------------------------------------------ *)

VARIABLES
    \* the database file coursera-dl.db
    tables,               \* whether create_tables has made the schema
    db,                   \* the rows of each table, by kind
    scope,                \* the kind whose `with database:` block is open
    \* the CourseraExtractor instance
    notebook_downloaded,  \* self._notebook_downloaded
    notebook_calls,       \* calls this extractor made of the notebook routine
    \* control
    pc,                   \* the statement the program is at
    exc,                  \* the exception that ended the last operation
    raised_at,            \* the statement that raised it
    runs,                 \* get_modules calls so far
    removals,             \* times the database file was lost (SpecEnv)
    \* arguments of the operation in progress
    class_name, page, reverse, download_quizzes, download_notebooks,
    \* locals of create_db_course
    course_info,
    \* locals of _parse_on_demand_syllabus
    db_course, db_module, db_lesson,
    mi, li, ii, ri,       \* positions of the four for loops
    available_lectures, json_references,
    modules, lessons, lectures, references, error_occurred,
    \* observation of the run in progress
    log,                  \* per walked item or reference: routine called, links
    lookups,              \* lesson ids the flat index was asked for
    db_start,             \* the catalog when the run began
    walked,               \* the pages a walk has returned for
    rewalk                \* whether the run in progress repeats one of them

dbVars == <<tables, db>>
nbVars == <<notebook_downloaded, notebook_calls>>
argVars == <<class_name, page, reverse, download_quizzes, download_notebooks>>
ctlVars == <<exc, raised_at, runs>>
pkVars == <<db_course, db_module, db_lesson>>
loopVars == <<mi, li, ii, ri>>
listVars == <<available_lectures, json_references>>
treeVars == <<modules, lessons, lectures, references>>
obsVars == <<log, lookups, db_start, rewalk>>
walkVars == <<pkVars, loopVars, listVars, treeVars, error_occurred, obsVars>>

vars == <<dbVars, scope, nbVars, pc, ctlVars, removals, argVars,
          course_info, walkVars, walked>>

NoInfo == [name |-> "", id |-> ""]

\* a fresh checkout: no database file yet, one extractor constructed
\* (extractors.py:32-34)
Init ==
    /\ tables = FALSE
    /\ db = EmptyDb
    /\ scope = "none"
    /\ notebook_downloaded = FALSE
    /\ notebook_calls = 0
    /\ pc = "idle"
    /\ exc = "none"
    /\ raised_at = "none"
    /\ runs = 0
    /\ removals = 0
    /\ class_name = "c1"
    /\ page = "A"
    /\ reverse = FALSE
    /\ download_quizzes = FALSE
    /\ download_notebooks = FALSE
    /\ course_info = NoInfo
    /\ db_course = 0 /\ db_module = 0 /\ db_lesson = 0
    /\ mi = 0 /\ li = 0 /\ ii = 0 /\ ri = 0
    /\ available_lectures = <<>>
    /\ json_references = <<>>
    /\ modules = <<>> /\ lessons = <<>> /\ lectures = <<>> /\ references = <<>>
    /\ error_occurred = FALSE
    /\ log = <<>>
    /\ lookups = <<>>
    /\ db_start = EmptyDb
    /\ walked = {}
    /\ rewalk = FALSE

\* no operation is in progress
Idle == pc \in {"idle", "returned", "raised"}

\* an exception leaves the operation; nothing else changes
Raise(name) ==
    /\ pc' = "raised"
    /\ exc' = name
    /\ raised_at' = pc

\* the locals of a walk as they are when it begins
ResetWalk ==
    /\ db_course' = 0 /\ db_module' = 0 /\ db_lesson' = 0
    /\ mi' = 0 /\ li' = 0 /\ ii' = 0 /\ ri' = 0
    /\ available_lectures' = <<>>
    /\ json_references' = <<>>
    /\ modules' = <<>> /\ lessons' = <<>> /\ lectures' = <<>> /\ references' = <<>>
    /\ error_occurred' = FALSE
    /\ log' = <<>>
    /\ lookups' = <<>>

\* the arguments of get_modules as they are when no walk is in progress
ResetArgs ==
    /\ page' = "A"
    /\ reverse' = FALSE
    /\ download_quizzes' = FALSE
    /\ download_notebooks' = FALSE

(* ------------------------------------------------------------------ *)
(* CourseraExtractor.__init__ (extractors.py:32-34)                   *)
(* ------------------------------------------------------------------ *)

\* a new extractor replaces the old one; the database file stays
Construct ==
    /\ Idle
    /\ notebook_downloaded' = FALSE
    /\ notebook_calls' = 0
    /\ UNCHANGED <<dbVars, pc, ctlVars, removals, scope, argVars, course_info, walkVars, walked>>

(* ------------------------------------------------------------------ *)
(* create_db_course (extractors.py:48-64, models.py:73-78)            *)
(* ------------------------------------------------------------------ *)

\* the Course.get_or_create of lines 56-58 and 62-64
CourseGetOrCreate(table, info, name) ==
    GetOrCreate(table, CourseKw(info.id, info.name, name), CourseUnique)

\* what a Course.get_or_create attempt at statement `at` leaves: the row
\* found or inserted and the operation over, or the exception on its way out
CourseAttempt(at) ==
    LET r == CourseGetOrCreate(db.Course, course_info', class_name')
    IN  /\ db' = [db EXCEPT !.Course = r.table]
        /\ IF r.exc = "none"
           THEN pc' = "idle" /\ exc' = "none" /\ raised_at' = "none"
           ELSE pc' = "raised" /\ exc' = r.exc /\ raised_at' = at

\* lines 51-58: fetch name and id, first attempt; an OperationalError
\* (no such table) is caught at line 59
CreateDbCourse ==
    /\ Idle
    /\ \E c \in ClassNames : \E info \in CourseInfos(c) :
        /\ class_name' = c
        /\ course_info' = info
    /\ IF ~tables
       THEN /\ pc' = "cdc_create_tables"
            /\ exc' = "none"
            /\ raised_at' = "none"
            /\ UNCHANGED db
       ELSE CourseAttempt("cdc_try")
    /\ ResetArgs
    /\ ResetWalk
    /\ db_start' = EmptyDb
    /\ rewalk' = FALSE
    /\ UNCHANGED <<tables, nbVars, runs, removals, scope, walked>>

\* line 60 and models.py:73-78: create_tables(), safe=True
CdcCreateTables ==
    /\ pc = "cdc_create_tables"
    /\ tables' = TRUE
    /\ pc' = "cdc_retry"
    /\ UNCHANGED <<db, nbVars, ctlVars, removals, scope, argVars,
                   course_info, walkVars, walked>>

\* lines 61-64: the second attempt, outside any try
CdcRetry ==
    /\ pc = "cdc_retry"
    /\ class_name' = class_name
    /\ course_info' = course_info
    /\ IF ~tables
       THEN Raise("OperationalError") /\ UNCHANGED db
       ELSE CourseAttempt("cdc_retry")
    /\ UNCHANGED <<tables, nbVars, runs, removals, scope, page, reverse,
                   download_quizzes, download_notebooks, walkVars, walked>>

(* ------------------------------------------------------------------ *)
(* get_modules (extractors.py:66-79) and _parse_on_demand_syllabus     *)
(* (extractors.py:99-314)                                              *)
(* ------------------------------------------------------------------ *)

\* get_modules is called and the page fetched (line 72)
GetModules ==
    /\ Idle
    /\ runs < MaxRuns
    /\ runs' = runs + 1
    /\ \E p \in PageNames :
        /\ page' = p
        /\ class_name' = Page(p).class_name
        /\ rewalk' = (p \in walked)
    /\ reverse' \in BOOLEAN
    /\ download_quizzes' \in BOOLEAN
    /\ download_notebooks' \in BOOLEAN
    /\ pc' = "parse"
    /\ exc' = "none"
    /\ raised_at' = "none"
    /\ course_info' = NoInfo
    /\ ResetWalk
    /\ db_start' = db
    /\ UNCHANGED <<dbVars, nbVars, removals, scope, walked>>

\* the keys lines 117 and 124 subscript the document with
HeadKeys == {"elements", "linked", "items"}

\* the tables lines 145-150 read: the variant keeps every one of them
LinkedKeysNoLessons == {"modules", "items"}

\* the tables lines 145-150 subscript dom['linked'] with
LinkedKeys == {"modules", "lessons", "items"}

\* lines 116-124: json.loads, dom['elements'][0]['id'],
\* dom['linked']['onDemandCourseMaterialItems.v2']
ParseHead ==
    /\ pc = "parse"
    /\ IF HeadKeys \subseteq Page(page).keys
       THEN pc' = "course_get" /\ UNCHANGED <<exc, raised_at>>
       ELSE Raise("KeyError")
    /\ UNCHANGED <<dbVars, nbVars, runs, removals, scope, argVars,
                   course_info, walkVars, walked>>

\* line 131: Course.get(course_id=class_id), outside any try
CourseGet ==
    /\ pc = "course_get"
    /\ LET found == {r \in db.Course : r.course_id = Page(page).class_id}
       IN  IF ~tables
           THEN Raise("OperationalError") /\ UNCHANGED db_course
           ELSE IF found = {}
           THEN Raise("DoesNotExist") /\ UNCHANGED db_course
           ELSE /\ db_course' = (CHOOSE r \in found : TRUE).id
                /\ pc' = "parse_linked"
                /\ UNCHANGED <<exc, raised_at>>
    /\ UNCHANGED <<dbVars, nbVars, runs, removals, scope, argVars,
                   course_info, db_module, db_lesson, loopVars, listVars,
                   treeVars, error_occurred, obsVars, walked>>

\* lines 133-150: the flat item index is fetched, error_occurred = False,
\* the three linked tables are read
ParseLinked ==
    /\ pc = "parse_linked"
    /\ IF LinkedKeys \subseteq Page(page).keys
       THEN pc' = "module_loop" /\ UNCHANGED <<exc, raised_at>>
       ELSE Raise("KeyError")
    /\ UNCHANGED <<dbVars, nbVars, runs, removals, scope, argVars,
                   course_info, walkVars, walked>>

all_modules == Page(page).modules
all_lessons == Page(page).lessons
all_items == Page(page).items

\* the loop variables of lines 172, 182, 201, 288
module == all_modules[mi]
section == Children(module.lessonIds, all_lessons)[li]
lecture == available_lectures[ii]
json_reference == json_references[ri]

\* line 172: for module in all_modules; after the loop, lines 280-281
ModuleLoop ==
    /\ pc = "module_loop"
    /\ IF mi < Len(all_modules)
       THEN /\ mi' = mi + 1
            /\ pc' = "module_goc"
            /\ UNCHANGED modules
       ELSE /\ modules' = ReverseModules(modules, reverse)
            /\ pc' = "poll"
            /\ UNCHANGED mi
    /\ UNCHANGED <<dbVars, nbVars, ctlVars, removals, scope, argVars,
                   course_info, pkVars, li, ii, ri, listVars, lessons, lectures,
                   references, error_occurred, obsVars, walked>>

\* lines 174-178: `with database:` is entered and Module.get_or_create runs
\* in it; an exception closes the block on its way out
ModuleGetOrCreate ==
    /\ pc = "module_goc"
    /\ IF ~tables
       THEN Raise("OperationalError") /\ UNCHANGED <<db, db_module, scope>>
       ELSE LET r == GetOrCreate(db.Module, ModuleKw(db_course, module), ModuleUnique)
            IN  IF r.exc # "none"
                THEN Raise(r.exc) /\ UNCHANGED <<db, db_module, scope>>
                ELSE /\ db' = [db EXCEPT !.Module = r.table]
                     /\ db_module' = r.pk
                     /\ scope' = "Module"
                     /\ pc' = "module_exit"
                     /\ UNCHANGED <<exc, raised_at>>
    /\ UNCHANGED <<tables, nbVars, runs, removals, argVars, course_info,
                   db_course, db_lesson, loopVars, listVars, treeVars,
                   error_occurred, obsVars, walked>>

\* the block of lines 174-178 stays open: the variant is the single scope
\* around the whole walk
ModuleExitOpen ==
    /\ pc = "module_exit"
    /\ lessons' = <<>>
    /\ li' = 0
    /\ pc' = "lesson_loop"
    /\ UNCHANGED <<dbVars, scope, nbVars, ctlVars, removals, argVars, course_info,
                   pkVars, mi, ii, ri, listVars, modules, lectures, references,
                   error_occurred, obsVars, walked>>

\* lines 178-181: the block is left and the row committed; lessons = []
ModuleExit ==
    /\ pc = "module_exit"
    /\ scope' = "none"
    /\ lessons' = <<>>
    /\ li' = 0
    /\ pc' = "lesson_loop"
    /\ UNCHANGED <<dbVars, nbVars, ctlVars, removals, argVars, course_info,
                   pkVars, mi, ii, ri, listVars, modules, lectures, references,
                   error_occurred, obsVars, walked>>

\* line 182: for section in module.children(all_lessons); after the loop,
\* lines 277-278
LessonLoop ==
    /\ pc = "lesson_loop"
    /\ IF li < Len(module.lessonIds)
       THEN /\ li' = li + 1
            /\ pc' = "lesson_goc"
            /\ UNCHANGED modules
       ELSE /\ modules' = AppendEntry(modules, module.slug, lessons)
            /\ pc' = "module_loop"
            /\ UNCHANGED li
    /\ UNCHANGED <<dbVars, nbVars, ctlVars, removals, scope, argVars,
                   course_info, pkVars, mi, ii, ri, listVars, lessons, lectures,
                   references, error_occurred, obsVars, walked>>

\* lines 185-188: `with database:` is entered and Lesson.get_or_create runs
\* in it
LessonGetOrCreate ==
    /\ pc = "lesson_goc"
    /\ IF ~tables
       THEN Raise("OperationalError") /\ UNCHANGED <<db, db_lesson, scope>>
       ELSE LET r == GetOrCreate(db.Lesson, LessonKw(db_module, section), LessonUnique)
            IN  IF r.exc # "none"
                THEN Raise(r.exc) /\ UNCHANGED <<db, db_lesson, scope>>
                ELSE /\ db' = [db EXCEPT !.Lesson = r.table]
                     /\ db_lesson' = r.pk
                     /\ scope' = "Lesson"
                     /\ pc' = "lesson_exit"
                     /\ UNCHANGED <<exc, raised_at>>
    /\ UNCHANGED <<tables, nbVars, runs, removals, argVars, course_info,
                   db_course, db_module, loopVars, listVars, treeVars,
                   error_occurred, obsVars, walked>>

\* lines 188-190: the block is left and the row committed; lectures = []
LessonExit ==
    /\ pc = "lesson_exit"
    /\ scope' = "none"
    /\ lectures' = <<>>
    /\ ii' = 0
    /\ pc' = "lesson_items"
    /\ UNCHANGED <<dbVars, nbVars, ctlVars, removals, argVars, course_info,
                   pkVars, mi, li, ri, listVars, modules, lessons, references,
                   error_occurred, obsVars, walked>>

\* lines 192-199: the lesson's items, or the flat index's item when it has
\* none
LessonItems ==
    /\ pc = "lesson_items"
    /\ LET own == Children(section.itemIds, all_items)
       IN  /\ available_lectures' = Fallback(own, page, section.id)
           /\ lookups' = IF Consults(own) THEN Append(lookups, section.id)
                         ELSE lookups
    /\ pc' = "item_loop"
    /\ UNCHANGED <<dbVars, scope, nbVars, ctlVars, removals, argVars, course_info,
                   pkVars, loopVars, json_references, treeVars, error_occurred,
                   log, db_start, rewalk, walked>>

\* line 201: for lecture in available_lectures; after the loop, lines 274-275
ItemLoop ==
    /\ pc = "item_loop"
    /\ IF ii < Len(available_lectures)
       THEN /\ ii' = ii + 1
            /\ pc' = "item_goc"
            /\ UNCHANGED lessons
       ELSE /\ lessons' = AppendEntry(lessons, section.slug, lectures)
            /\ pc' = "lesson_loop"
            /\ UNCHANGED ii
    /\ UNCHANGED <<dbVars, nbVars, ctlVars, removals, scope, argVars,
                   course_info, pkVars, mi, li, ri, listVars, modules, lectures,
                   references, error_occurred, obsVars, walked>>

\* the Item row is never written: the variant goes straight to the dispatch
ItemGetOrCreateSkipped ==
    /\ pc = "item_goc"
    /\ pc' = "dispatch"
    /\ UNCHANGED <<dbVars, scope, nbVars, ctlVars, removals, argVars, course_info,
                   walkVars, walked>>

\* lines 202-206: `with database:` is entered and Item.get_or_create runs
\* in it
ItemGetOrCreate ==
    /\ pc = "item_goc"
    /\ IF ~tables
       THEN Raise("OperationalError") /\ UNCHANGED <<db, scope>>
       ELSE LET r == GetOrCreate(db.Item, ItemKw(db_lesson, db_module, lecture),
                                 ItemUnique)
            IN  IF r.exc # "none"
                THEN Raise(r.exc) /\ UNCHANGED <<db, scope>>
                ELSE /\ db' = [db EXCEPT !.Item = r.table]
                     /\ scope' = "Item"
                     /\ pc' = "item_exit"
                     /\ UNCHANGED <<exc, raised_at>>
    /\ UNCHANGED <<tables, nbVars, runs, removals, argVars, course_info,
                   walkVars, walked>>

\* lines 206-208: the block is left and the row committed; links = {}
ItemExit ==
    /\ pc = "item_exit"
    /\ scope' = "none"
    /\ pc' = "dispatch"
    /\ UNCHANGED <<dbVars, nbVars, ctlVars, removals, argVars, course_info,
                   walkVars, walked>>

\* what the log keeps of a walked item: the routine called for it ("none"
\* when its gate is closed, "unsupported" for the else branch), the links
\* it yielded, and the lesson and module it was walked under
Entry(routine, links) ==
    [id |-> lecture.id, slug |-> lecture.slug, type_name |-> lecture.type_name,
     routine |-> routine, links |-> links,
     section |-> section.slug, module |-> module.slug]

\* lines 269-272 for the links an item yielded
Record(links, routine) ==
    /\ error_occurred' = ErrorAfter(error_occurred, links)
    /\ lectures' = AppendLinks(lectures, lecture.slug, links)
    /\ log' = Append(log, Entry(routine, links))

\* variant: an unsupported tag counted as a failed extraction
UnsupportedFlagged ==
    /\ log' = Append(log, Entry("unsupported", LinksEmpty))
    /\ error_occurred' = TRUE
    /\ UNCHANGED <<lectures, nbVars>>

\* lines 263-267: the else branch: a log line, then continue
Unsupported ==
    /\ log' = Append(log, Entry("unsupported", LinksEmpty))
    /\ UNCHANGED <<error_occurred, lectures, nbVars>>

\* lines 208-272: links = {}; the dispatch on typename; the routine's call
\* when its gate is open, whatever it returns; the unsupported tag continues
Dispatch ==
    /\ pc = "dispatch"
    /\ LET typename == lecture.type_name
       IN  IF Routine(typename) = "unsupported"
           THEN Unsupported
           ELSE IF Invoked(typename, download_quizzes, download_notebooks,
                           notebook_downloaded)
           THEN /\ \E links \in Results : Record(links, Routine(typename))
                /\ notebook_downloaded' =
                       IF typename = "notebook" THEN TRUE ELSE notebook_downloaded
                /\ notebook_calls' =
                       IF typename = "notebook" THEN notebook_calls + 1
                       ELSE notebook_calls
           ELSE /\ Record(LinksEmpty, "none")
                /\ UNCHANGED nbVars
    /\ pc' = "item_loop"
    /\ UNCHANGED <<dbVars, ctlVars, removals, scope, argVars, course_info, pkVars,
                   loopVars, listVars, modules, lessons, references, lookups,
                   db_start, rewalk, walked>>

\* lines 284-286: the reference poll, after the walk; references = []
Poll ==
    /\ pc = "poll"
    /\ json_references' = Page(page).refs
    /\ references' = <<>>
    /\ ri' = 0
    /\ pc' = "ref_loop"
    /\ UNCHANGED <<dbVars, nbVars, ctlVars, removals, scope, argVars,
                   course_info, pkVars, mi, li, ii, available_lectures, modules,
                   lessons, lectures, error_occurred, obsVars, walked>>

\* line 288: for json_reference in json_references; after the loop,
\* lines 311-314: the Resources entry and the return
RefLoop ==
    /\ pc = "ref_loop"
    /\ IF ri < Len(json_references)
       THEN /\ ri' = ri + 1
            /\ pc' = "ref_goc"
            /\ UNCHANGED <<modules, walked>>
       ELSE /\ modules' = AppendResources(modules, references)
            /\ pc' = "returned"
            /\ walked' = walked \cup {page}
            /\ UNCHANGED ri
    /\ UNCHANGED <<dbVars, nbVars, ctlVars, removals, scope, argVars,
                   course_info, pkVars, mi, li, ii, listVars, lessons, lectures,
                   references, error_occurred, obsVars>>

\* the Reference row is never written: the variant goes straight to the
\* extraction
RefGetOrCreateSkipped ==
    /\ pc = "ref_goc"
    /\ pc' = "ref_extract"
    /\ UNCHANGED <<dbVars, scope, nbVars, ctlVars, removals, argVars, course_info,
                   walkVars, walked>>

\* lines 289-300: `with database:` is entered and Reference.get_or_create
\* runs in it
RefGetOrCreate ==
    /\ pc = "ref_goc"
    /\ IF ~tables
       THEN Raise("OperationalError") /\ UNCHANGED <<db, scope>>
       ELSE LET r == GetOrCreate(db.Reference, ReferenceKw(db_course, json_reference),
                                 ReferenceUnique)
            IN  IF r.exc # "none"
                THEN Raise(r.exc) /\ UNCHANGED <<db, scope>>
                ELSE /\ db' = [db EXCEPT !.Reference = r.table]
                     /\ scope' = "Reference"
                     /\ pc' = "ref_exit"
                     /\ UNCHANGED <<exc, raised_at>>
    /\ UNCHANGED <<tables, nbVars, runs, removals, argVars, course_info,
                   walkVars, walked>>

\* lines 300-302: the block is left and the row committed
RefExit ==
    /\ pc = "ref_exit"
    /\ scope' = "none"
    /\ pc' = "ref_extract"
    /\ UNCHANGED <<dbVars, nbVars, ctlVars, removals, argVars, course_info,
                   walkVars, walked>>

\* lines 302-309: extract_links_from_reference(short_id) and its record
RefExtract ==
    /\ pc = "ref_extract"
    /\ \E links \in Results :
        /\ error_occurred' = ErrorAfter(error_occurred, links)
        /\ references' = AppendEntry(references, json_reference.slug,
                                     AppendLinks(<<>>, "", links))
        /\ log' = Append(log, [id |-> json_reference.id, slug |-> "",
                               type_name |-> "reference",
                               routine |-> "extract_links_from_reference",
                               links |-> links,
                               section |-> json_reference.slug,
                               module |-> "Resources"])
    /\ pc' = "ref_loop"
    /\ UNCHANGED <<dbVars, nbVars, ctlVars, removals, scope, argVars,
                   course_info, pkVars, loopVars, listVars, modules, lessons,
                   lectures, lookups, db_start, rewalk, walked>>

(* ------------------------------------------------------------------ *)
(* The database file, from outside the program                        *)
(* ------------------------------------------------------------------ *)

\* coursera-dl.db (models.py:4) is a file in the working directory, opened
\* anew by each `with database:`; it can be removed between two statements
DatabaseRemoved ==
    /\ removals < MaxRemovals
    /\ tables
    /\ removals' = removals + 1
    /\ tables' = FALSE
    /\ db' = EmptyDb
    /\ UNCHANGED <<scope, nbVars, pc, ctlVars, argVars, course_info, walkVars,
                   walked>>

(* ------------------------------------------------------------------ *)
(* Specifications                                                     *)
(* ------------------------------------------------------------------ *)

Next ==
    \/ Construct
    \/ CreateDbCourse
    \/ CdcCreateTables
    \/ CdcRetry
    \/ GetModules
    \/ ParseHead
    \/ CourseGet
    \/ ParseLinked
    \/ ModuleLoop
    \/ ModuleGetOrCreate
    \/ ModuleExit
    \/ LessonLoop
    \/ LessonGetOrCreate
    \/ LessonExit
    \/ LessonItems
    \/ ItemLoop
    \/ ItemGetOrCreate
    \/ ItemExit
    \/ Dispatch
    \/ Poll
    \/ RefLoop
    \/ RefGetOrCreate
    \/ RefExit
    \/ RefExtract

\* the program alone
Spec == Init /\ [][Next]_vars

\* the program, with a database file that can be lost under it
SpecEnv == Init /\ [][Next \/ DatabaseRemoved]_vars


(* ------------------------------------------------------------------ *)
(* Vocabulary of the properties                                       *)
(* ------------------------------------------------------------------ *)

Returned == pc = "returned"

Entries == Range(log)
ItemEntries == {e \in Entries : e.type_name # "reference"}
RefEntries == {e \in Entries : e.type_name = "reference"}

\* the tree holds (islug, links) under lesson sslug of module mslug
InTree(tree, mslug, sslug, islug, links) ==
    \E a \in 1..Len(tree) :
        /\ tree[a][1] = mslug
        /\ \E b \in 1..Len(tree[a][2]) :
            /\ tree[a][2][b][1] = sslug
            /\ \E c \in 1..Len(tree[a][2][b][2]) :
                tree[a][2][b][2][c] = <<islug, links>>

\* the tree has an entry for lesson sslug
LessonInTree(tree, sslug) ==
    \E a \in 1..Len(tree) : \E b \in 1..Len(tree[a][2]) : tree[a][2][b][1] = sslug

\* the tree holds an item islug under some lesson
SlugInTree(tree, islug) ==
    \E a \in 1..Len(tree) : \E b \in 1..Len(tree[a][2]) :
        \E c \in 1..Len(tree[a][2][b][2]) : tree[a][2][b][2][c][1] = islug

\* the lessons the walk of page p goes through, and the items and
\* references it reaches, read off the document
LessonsOf(p) ==
    {l \in Range(Page(p).lessons) :
        \E m \in Range(Page(p).modules) : l.id \in Range(m.lessonIds)}
OwnItems(p, l) == {x \in Range(Page(p).items) : x.id \in Range(l.itemIds)}
FlatItems(p, l) ==
    {Page(p).flat[k] : k \in {j \in 1..Len(Page(p).flatOf) : Page(p).flatOf[j] = l.id}}
ReachedIds(p) ==
    UNION {{x.id : x \in IF OwnItems(p, l) = {} THEN FlatItems(p, l) ELSE OwnItems(p, l)}
           : l \in LessonsOf(p)}
      \cup {r.id : r \in Range(Page(p).refs)}

\* the log positions where links of value v came back
Positions(v) == {k \in 1..Len(log) : log[k].links = v}

(* ------------------------------------------------------------------ *)
(* C1                                                                 *)
(* ------------------------------------------------------------------ *)

\* C1: when _parse_on_demand_syllabus returns, the error flag is true
\* exactly when some item or reference extraction of the run returned
\* None; None never stops the walk (every item and reference the document
\* leads to has been walked, once); and every item whose extraction
\* returned a populated map is in the tree as (slug, links) under its
\* lesson and module.
C1_ErrorAggregation ==
    Returned =>
        /\ error_occurred <=> (\E e \in Entries : e.links = LinksNone)
        /\ {e.id : e \in Entries} = ReachedIds(page)
        /\ Len(log) = Cardinality(ReachedIds(page))
        /\ \A e \in ItemEntries :
               e.links = LinksSome =>
                   InTree(modules, e.module, e.section, e.slug, e.links)

\* a returned run in which an extraction failed and a later one succeeded
C1_Witness ==
    /\ Returned
    /\ error_occurred
    /\ \E j \in Positions(LinksNone) : \E k \in Positions(LinksSome) :
           /\ j < k
           /\ log[k].type_name # "reference"
           /\ InTree(modules, log[k].module, log[k].section, log[k].slug, LinksSome)


(* ------------------------------------------------------------------ *)
(* C2                                                                 *)
(* ------------------------------------------------------------------ *)

UniqueOf(kind) ==
    CASE kind = "Course" -> CourseUnique
      [] kind = "Module" -> ModuleUnique
      [] kind = "Lesson" -> LessonUnique
      [] kind = "Item" -> ItemUnique
      [] OTHER -> ReferenceUnique

\* the external id column of each kind
IdColumn(kind) ==
    CASE kind = "Course" -> "course_id"
      [] kind = "Module" -> "module_id"
      [] kind = "Lesson" -> "lesson_id"
      [] kind = "Item" -> "item_id"
      [] OTHER -> "ref_id"

\* the keywords create_db_course can supply, whatever the class
SuppliedCourse ==
    UNION {{CourseKw(i.id, i.name, c) : i \in CourseInfos(c)} : c \in ClassNames}

\* the get-or-create the walk is about to make, as <<kind, keywords>>
PendingCall ==
    CASE pc = "module_goc" -> {<<"Module", ModuleKw(db_course, module)>>}
      [] pc = "lesson_goc" -> {<<"Lesson", LessonKw(db_module, section)>>}
      [] pc = "item_goc" -> {<<"Item", ItemKw(db_lesson, db_module, lecture)>>}
      [] pc = "ref_goc" -> {<<"Reference", ReferenceKw(db_course, json_reference)>>}
      [] pc = "cdc_retry" ->
             {<<"Course", CourseKw(course_info.id, course_info.name, class_name)>>}
      [] Idle -> {<<"Course", kw>> : kw \in SuppliedCourse}
      [] OTHER -> {}

\* get-or-create twice with the same keywords: the second call returns the
\* row of the first and adds nothing, and one row holds the external id
TwiceIsOnce(kind, kw) ==
    LET first  == GetOrCreate(db[kind], kw, UniqueOf(kind))
        second == GetOrCreate(first.table, kw, UniqueOf(kind))
    IN  first.exc = "none" =>
            /\ second.exc = "none"
            /\ second.pk = first.pk
            /\ second.table = first.table
            /\ Cardinality({r \in second.table :
                               r[IdColumn(kind)] = kw[IdColumn(kind)]}) = 1

\* C2: every get-or-create the program is about to make, made twice with
\* the same external id and the same attributes, returns the same row both
\* times and leaves exactly one row with that external id; no two rows of
\* a kind share an external id; and a walk of a page for which a walk has
\* already returned adds no row: the tables stay as they were.
C2_IdempotentPersistence ==
    /\ \A call \in PendingCall : TwiceIsOnce(call[1], call[2])
    /\ \A kind \in Kinds : \A r1, r2 \in db[kind] :
           r1[IdColumn(kind)] = r2[IdColumn(kind)] => r1 = r2
    /\ rewalk => db = db_start /\ pc # "raised"

\* a second walk of the same page has returned, over a catalog with rows
\* of every kind
C2_Witness ==
    /\ Returned
    /\ rewalk
    /\ \A kind \in Kinds : db[kind] # {}


(* ------------------------------------------------------------------ *)
(* C3                                                                 *)
(* ------------------------------------------------------------------ *)

\* the log positions of the items tagged notebook
NotebookPositions == {k \in 1..Len(log) : log[k].type_name = "notebook"}

NotebookCalls ==
    {k \in 1..Len(log) : log[k].routine = "extract_links_from_notebook"}

\* C3 as stated: of two notebook items walked in one run with
\* download_notebooks set, exactly one has a populated map in the tree.
C3_ExactlyOneNotebook ==
    (Returned /\ download_notebooks /\ Cardinality(NotebookPositions) >= 2) =>
        Cardinality({k \in NotebookPositions :
                        /\ log[k].links = LinksSome
                        /\ SlugInTree(modules, log[k].slug)}) = 1

\* C3 as amended: of the notebook items walked in one run, at most one has
\* a populated map; the notebook routine is called at most once in the run
\* and never for a notebook item that follows another: that one yields the
\* empty map, is not in the tree and does not set the error flag.
C3_AtMostOneNotebook ==
    /\ Cardinality(NotebookCalls) <= 1
    /\ Cardinality({k \in NotebookPositions : log[k].links = LinksSome}) <= 1
    /\ \A k \in NotebookCalls : download_notebooks
    /\ \A j, k \in NotebookPositions :
           j < k =>
               /\ log[k].routine = "none"
               /\ log[k].links = LinksEmpty
               /\ Returned => ~SlugInTree(modules, log[k].slug)

\* two notebook items walked with download_notebooks set: the first was
\* extracted and is in the tree, the second was not called
C3_Witness ==
    /\ Returned
    /\ download_notebooks
    /\ \E j, k \in NotebookPositions :
           /\ j < k
           /\ log[j].routine = "extract_links_from_notebook"
           /\ log[j].links = LinksSome
           /\ SlugInTree(modules, log[j].slug)
           /\ log[k].routine = "none"


(* ------------------------------------------------------------------ *)
(* C4                                                                 *)
(* ------------------------------------------------------------------ *)

\* the lessons of the page whose own item list is empty, with and
\* without an entry in the flat item index
EmptyLessons(p) == {l \in LessonsOf(p) : OwnItems(p, l) = {}}
FallbackLessons(p) == {l \in EmptyLessons(p) : FlatItems(p, l) # {}}
BareLessons(p) == {l \in EmptyLessons(p) : FlatItems(p, l) = {}}

\* the items the tree holds under lesson sslug (the empty list when the
\* lesson is absent)
TreeItems(tree, sslug) ==
    LET at == UNION {{<<a, b>> : b \in {c \in 1..Len(tree[a][2]) :
                                             tree[a][2][c][1] = sslug}}
                     : a \in 1..Len(tree)}
    IN  IF at = {} THEN <<>>
        ELSE LET ab == CHOOSE x \in at : TRUE IN tree[ab[1]][2][ab[2]][2]

SectionEntries(sslug) == {e \in ItemEntries : e.section = sslug}

\* C4 as stated: a lesson with an empty item list and an entry in the flat
\* index has exactly one item in the returned tree.
C4_FallbackYieldsOneItem ==
    Returned =>
        \A l \in FallbackLessons(page) : Len(TreeItems(modules, l.slug)) = 1

\* C4 as amended: for a lesson with an empty item list and an entry in the
\* flat index exactly one item, the index's, is walked, and the returned
\* tree holds it exactly when its extraction returned a populated map
\* (otherwise the lesson is absent); a lesson with an empty list and no
\* entry has no item walked and is absent from the tree; and the flat index
\* is asked for exactly the lessons whose own list is empty, once each.
C4_FallbackRule ==
    Returned =>
        /\ \A l \in FallbackLessons(page) :
               \E e \in SectionEntries(l.slug) :
                   /\ SectionEntries(l.slug) = {e}
                   /\ {e.id} = {x.id : x \in FlatItems(page, l)}
                   /\ TreeItems(modules, l.slug) =
                          IF e.links = LinksSome THEN <<<<e.slug, e.links>>>> ELSE <<>>
                   /\ LessonInTree(modules, l.slug) <=> e.links = LinksSome
        /\ \A l \in BareLessons(page) :
               /\ SectionEntries(l.slug) = {}
               /\ ~LessonInTree(modules, l.slug)
        /\ Range(lookups) = {l.id : l \in EmptyLessons(page)}
        /\ Len(lookups) = Cardinality(EmptyLessons(page))

\* a returned run over a page with a fallback lesson whose item is in the
\* tree and a bare lesson that is not
C4_Witness ==
    /\ Returned
    /\ \E l \in FallbackLessons(page) : Len(TreeItems(modules, l.slug)) = 1
    /\ \E l \in BareLessons(page) : ~LessonInTree(modules, l.slug)
    /\ Len(lookups) = 2


(* ------------------------------------------------------------------ *)
(* C5                                                                 *)
(* ------------------------------------------------------------------ *)

IsPopulatedRef(e) == e.type_name = "reference" /\ e.links = LinksSome

\* the entries of the polled references whose extraction returned a
\* populated map, in poll order
PopulatedRefs ==
    LET sel == SelectSeq(log, IsPopulatedRef)
    IN  [k \in 1..Len(sel) |-> <<sel[k].section, <<<<"", sel[k].links>>>>>>]

LastIsResources ==
    /\ modules # <<>>
    /\ modules[Len(modules)][1] = "Resources"

\* C5 as stated: whenever the reference poll returned at least one
\* reference, the last entry of the returned tree is named "Resources".
C5_ResourcesWheneverPolled ==
    (Returned /\ json_references # <<>>) => LastIsResources

\* C5 as amended: whenever at least one polled reference yielded a
\* populated map, the last entry of the returned tree is ("Resources", the
\* populated references in poll order), whatever the reverse flag, and no
\* earlier entry is that one; when none did, the tree has no such entry.
C5_ResourcesPlacement ==
    Returned =>
        IF PopulatedRefs # <<>>
        THEN /\ LastIsResources
             /\ modules[Len(modules)][2] = PopulatedRefs
             /\ \A a \in 1..(Len(modules) - 1) : modules[a][1] # "Resources"
        ELSE \A a \in 1..Len(modules) : modules[a][1] # "Resources"

\* a reversed tree of two modules with the Resources entry behind them
C5_Witness ==
    /\ Returned
    /\ reverse
    /\ Len(modules) = 3
    /\ LastIsResources
    /\ modules[1][1] = "m2"

(* ------------------------------------------------------------------ *)
(* C6                                                                 *)
(* ------------------------------------------------------------------ *)

NonEmptyEntry(x) == x[2] # <<>>

\* the tree the document and the extraction outcomes of the run determine,
\* in document order: per module its lessons, per lesson the items whose
\* extraction returned a populated map, empty lessons and modules left out
OutcomeItems(sslug) ==
    LET IsHit(e) == e.type_name # "reference" /\ e.section = sslug
                    /\ e.links = LinksSome
        sel == SelectSeq(log, IsHit)
    IN  [k \in 1..Len(sel) |-> <<sel[k].slug, sel[k].links>>]

OutcomeLessons(m) ==
    LET ls == Children(m.lessonIds, Page(page).lessons)
    IN  SelectSeq([k \in 1..Len(ls) |-> <<ls[k].slug, OutcomeItems(ls[k].slug)>>],
                  NonEmptyEntry)

OutcomeModules ==
    LET ms == Page(page).modules
    IN  SelectSeq([k \in 1..Len(ms) |-> <<ms[k].slug, OutcomeLessons(ms[k])>>],
                  NonEmptyEntry)

\* the module entries of the returned tree, a trailing Resources entry left out
ModuleEntries ==
    IF LastIsResources THEN SubSeq(modules, 1, Len(modules) - 1) ELSE modules

\* C6: the module entries returned are the ones the document and the
\* extraction outcomes determine, in document order with reverse=false and
\* in exactly the reversed order with reverse=true, each entry (its lesson
\* list and every item list) the same in both: two runs over the same
\* document with the same outcomes differ by the top-level order alone.
C6_ReverseFlag ==
    Returned =>
        ModuleEntries = IF reverse THEN Reverse(OutcomeModules) ELSE OutcomeModules

\* a reversed tree of two modules, the last of the document first, with
\* its two lessons in document order
C6_Witness ==
    /\ Returned
    /\ reverse
    /\ Len(ModuleEntries) = 2
    /\ ModuleEntries[1][1] = "m4"
    /\ ModuleEntries[2][1] = "m3"
    /\ Len(ModuleEntries[1][2]) = 2
    /\ ModuleEntries[1][2][1][1] = "l5"


(* ------------------------------------------------------------------ *)
(* C7                                                                 *)
(* ------------------------------------------------------------------ *)

GetOrCreateSites ==
    {"cdc_try", "cdc_retry", "module_goc", "lesson_goc", "item_goc", "ref_goc"}

\* C7: a get-or-create call whose unique external id already has a row
\* returns that row and never raises, whatever attributes are supplied: no
\* get-or-create site ever raises IntegrityError.
C7_NoStoreConflict ==
    ~(pc = "raised" /\ exc = "IntegrityError" /\ raised_at \in GetOrCreateSites)

(* ------------------------------------------------------------------ *)
(* C8                                                                 *)
(* ------------------------------------------------------------------ *)

\* C8: no step of the extractor changes or deletes a catalog row: every
\* row of every table is still there, with the values it was inserted
\* with, after the step; the tables, once created, stay.
C8_FirstWriteWins ==
    [][/\ \A kind \in Kinds : db[kind] \subseteq db'[kind]
       /\ tables => tables']_vars

\* a get-or-create that supplied new attributes for an existing external
\* id has been refused, and the row holds what it was inserted with
C8_Witness ==
    /\ pc = "raised"
    /\ exc = "IntegrityError"
    /\ raised_at = "module_goc"
    /\ module.name = "Week 2 (new)"
    /\ \E r \in db.Module : r.module_id = "m2" /\ r.name = "Week 2"
    /\ db = db_start

(* ------------------------------------------------------------------ *)
(* C9                                                                 *)
(* ------------------------------------------------------------------ *)

\* C9: whenever a get-or-create (Course, Module, Lesson, Item, Reference)
\* fails because the schema is missing, the tables are created and the
\* operation is tried once more; so an OperationalError leaves a
\* get-or-create site only from the retry that follows create_tables.
C9_SelfHealing ==
    (pc = "raised" /\ exc = "OperationalError" /\ raised_at \in GetOrCreateSites)
        => raised_at = "cdc_retry"


(* ------------------------------------------------------------------ *)
(* C10                                                                *)
(* ------------------------------------------------------------------ *)

\* the routine a gated type tag names
GatedRoutine(typename) ==
    CASE typename = "quiz" -> "extract_links_from_quiz"
      [] typename = "exam" -> "extract_links_from_exam"
      [] typename = "programming" ->
             "extract_links_from_programming_immediate_instructions"
      [] OTHER -> "extract_links_from_notebook"

Called(e) == e.routine \notin {"none", "unsupported"}

\* C10: for every walked item tagged quiz, exam or programming its routine
\* is called if and only if download_quizzes is set, and for an item tagged
\* notebook only if download_notebooks is set; an item whose gate is closed
\* has no call made, yields the empty map, is not in the returned tree and
\* does not set the error flag; items tagged lecture, supplement,
\* phasedPeer, gradedProgramming or ungradedProgramming are always
\* extracted.
C10_PolicyGating ==
    /\ \A e \in ItemEntries :
        /\ e.type_name \in {"quiz", "exam", "programming"} =>
               /\ Called(e) <=> download_quizzes
               /\ Called(e) => e.routine = GatedRoutine(e.type_name)
        /\ e.type_name = "notebook" =>
               /\ Called(e) => download_notebooks
               /\ Called(e) => e.routine = GatedRoutine(e.type_name)
        /\ e.type_name \in {"lecture", "supplement", "phasedPeer",
                            "gradedProgramming", "ungradedProgramming"} =>
               Called(e)
        /\ ~Called(e) =>
               /\ e.links = LinksEmpty
               /\ Returned => ~SlugInTree(modules, e.slug)
    /\ error_occurred => \E e \in Entries : Called(e) /\ e.links = LinksNone

\* a returned run with download_quizzes unset: the quiz was walked and not
\* extracted, the lecture before it was, and the flag is unset
C10_Witness ==
    /\ Returned
    /\ ~download_quizzes
    /\ \E e \in ItemEntries : e.type_name = "quiz" /\ ~Called(e)
    /\ \E e \in ItemEntries : e.type_name = "lecture" /\ e.links = LinksSome
    /\ \E e \in ItemEntries : e.type_name = "gradedProgramming" /\ Called(e)
    /\ ~error_occurred

(* ------------------------------------------------------------------ *)
(* C11                                                                *)
(* ------------------------------------------------------------------ *)

\* the type tags the dispatch of lines 216-261 has a branch for
DispatchTable == AlwaysTypes \cup QuizTypes \cup {"notebook"}

\* the log positions of the items whose tag is outside the dispatch table
UnsupportedPositions ==
    {k \in 1..Len(log) :
        /\ log[k].type_name # "reference"
        /\ log[k].type_name \notin DispatchTable}

\* C11: an item whose type tag is outside the dispatch table has no
\* extraction routine called for it, is in neither the lesson's list nor
\* the returned tree, and does not set the error flag (the flag is set
\* only by a call that returned None); it does not stop the run either:
\* no exception leaves the dispatch, and a returned run has walked every
\* item and reference the document leads to, those after it included.
C11_UnsupportedType ==
    /\ \A k \in UnsupportedPositions :
        /\ ~Called(log[k])
        /\ log[k].links = LinksEmpty
        /\ \A c \in 1..Len(lectures) : lectures[c][1] # log[k].slug
        /\ Returned => ~SlugInTree(modules, log[k].slug)
    /\ error_occurred => \E e \in Entries : Called(e) /\ e.links = LinksNone
    /\ pc = "raised" => raised_at # "dispatch"
    /\ (Returned /\ UnsupportedPositions # {}) =>
           {e.id : e \in Entries} = ReachedIds(page)

\* a returned run over page C: the widget was walked and is not in the
\* tree, the error flag is unset, and the item and the two references
\* after it were extracted
C11_Witness ==
    /\ Returned
    /\ page = "C"
    /\ ~error_occurred
    /\ \E k \in UnsupportedPositions :
        /\ log[k].id = "i11"
        /\ ~SlugInTree(modules, log[k].slug)
        /\ \E j \in (k+1)..Len(log) :
               /\ log[j].id = "i10"
               /\ InTree(modules, log[j].module, log[j].section, log[j].slug, LinksSome)
        /\ Cardinality({j \in (k+1)..Len(log) :
                           /\ log[j].type_name = "reference"
                           /\ log[j].links = LinksSome}) = 2

(* ------------------------------------------------------------------ *)
(* C12                                                                *)
(* ------------------------------------------------------------------ *)

\* a list of (slug, links) pairs none of which has an empty map
ItemsPopulated(items) ==
    \A c \in 1..Len(items) : items[c][2] = LinksSome

\* a list of (slug, items) pairs none of which is empty, item by item
LessonsPopulated(entries) ==
    \A b \in 1..Len(entries) :
        /\ Len(entries[b][2]) > 0
        /\ ItemsPopulated(entries[b][2])

\* the slugs of the top-level entries of the tree
ModuleSlugs == {modules[a][1] : a \in 1..Len(modules)}

\* C12: the tree holds no empty container, while it is built and when it
\* is returned: every module entry (the Resources entry included) has at
\* least one lesson, every lesson at least one item, every item a
\* non-empty map of links; a lesson none of whose items yielded links has
\* no entry, and neither has a module none of whose lessons has one.
C12_NoEmptyContainers ==
    /\ ItemsPopulated(lectures)
    /\ LessonsPopulated(lessons)
    /\ \A a \in 1..Len(modules) :
        /\ Len(modules[a][2]) > 0
        /\ LessonsPopulated(modules[a][2])
    /\ Returned =>
        /\ \A l \in LessonsOf(page) :
               (\A e \in ItemEntries : e.section = l.slug => e.links # LinksSome)
                   => ~LessonInTree(modules, l.slug)
        /\ \A m \in Range(Page(page).modules) :
               (\A e \in ItemEntries : e.module = m.slug => e.links # LinksSome)
                   => m.slug \notin ModuleSlugs

\* a returned run over page B: module m3 was walked and dropped, lesson l8
\* of module m4 was walked and dropped, and m4 is returned with lesson l5
C12_Witness ==
    /\ Returned
    /\ page = "B"
    /\ {e.module : e \in ItemEntries} = {"m3", "m4"}
    /\ \E e \in ItemEntries : e.section = "l8"
    /\ ModuleSlugs = {"m4"}
    /\ Len(modules[1][2]) = 1
    /\ modules[1][2][1][1] = "l5"

(* ------------------------------------------------------------------ *)
(* C13                                                                *)
(* ------------------------------------------------------------------ *)

\* the document of the run lacks a key the parse subscripts it with
Malformed == ~(AllKeys \subseteq Page(page).keys)

\* get_modules is the operation in progress, or the last one to end
InGetModules == runs > 0 /\ course_info = NoInfo

\* C13: a run over a document that lacks a required key (elements,
\* linked, or the modules, lessons or items table under linked) never
\* returns, so it yields no tree; it ends in an exception (the KeyError of
\* the subscript, unless Course.get failed first), and until then no
\* Module, Lesson, Item or Reference row has been written, no extraction
\* routine called and the flat index asked nothing.
C13_MalformedDocument ==
    (InGetModules /\ Malformed) =>
        /\ pc \in {"parse", "course_get", "parse_linked", "raised"}
        /\ pc = "raised" =>
               /\ raised_at \in {"parse", "course_get", "parse_linked"}
               /\ raised_at # "course_get" => exc = "KeyError"
        /\ \A kind \in {"Module", "Lesson", "Item", "Reference"} :
               db[kind] = db_start[kind]
        /\ log = <<>>
        /\ lookups = <<>>
        /\ modules = <<>>

\* the run over the page without a lessons table has ended in a KeyError
\* at lines 145-150, after Course.get found the row of the course, in a
\* catalog that already held modules
C13_Witness ==
    /\ InGetModules
    /\ page = "noLessons"
    /\ pc = "raised"
    /\ exc = "KeyError"
    /\ raised_at = "parse_linked"
    /\ db_course # 0
    /\ db.Module # {}
    /\ db = db_start

(* ------------------------------------------------------------------ *)
(* C14                                                                *)
(* ------------------------------------------------------------------ *)

\* C14: with the schema in place, get_modules ends in an exception only
\* for a malformed document; under every other condition (a missing
\* Course row, a get-or-create on an existing id with different
\* attributes) it returns the pair of the error flag and the tree.
C14_PropagationPolicy ==
    (InGetModules /\ tables /\ pc = "raised") =>
        /\ exc = "KeyError"
        /\ Malformed

(* ------------------------------------------------------------------ *)
(* C15                                                                *)
(* ------------------------------------------------------------------ *)

\* no two rows of the table agree on column f
UniqueBy(table, f) == Cardinality({r[f] : r \in table}) = Cardinality(table)

\* the primary keys of the rows of a kind
Pks(kind) == {r.id : r \in db[kind]}

\* C15: whatever create_db_course and get_modules calls were made, and at
\* every statement of them, the external id of each kind (and the primary
\* key) names at most one row; every Module and every Reference row names
\* the key of a Course row, every Lesson row that of a Module row, every
\* Item row that of a Lesson row and of a Module row, and the module of
\* an Item is the module of its lesson.
C15_ReferentialInvariant ==
    /\ \A kind \in Kinds : UniqueBy(db[kind], "id")
    /\ UniqueBy(db.Course, "course_id")
    /\ UniqueBy(db.Module, "module_id")
    /\ UniqueBy(db.Lesson, "lesson_id")
    /\ UniqueBy(db.Item, "item_id")
    /\ UniqueBy(db.Reference, "ref_id")
    /\ \A m \in db.Module : m.course \in Pks("Course")
    /\ \A r \in db.Reference : r.course \in Pks("Course")
    /\ \A l \in db.Lesson : l.module \in Pks("Module")
    /\ \A i \in db.Item :
        /\ i.module \in Pks("Module")
        /\ \E l \in db.Lesson : l.id = i.lesson /\ l.module = i.module

\* the catalog after walks of two courses: rows of every kind, two Course
\* rows with modules each, and an item whose lesson and module keys differ
C15_Witness ==
    /\ Idle
    /\ \A kind \in Kinds : db[kind] # {}
    /\ Cardinality({m.course : m \in db.Module}) = 2
    /\ \E i \in db.Item : i.lesson # i.module
    /\ \E l \in db.Lesson : \A i \in db.Item : i.lesson # l.id

(* ------------------------------------------------------------------ *)
(* C17                                                                *)
(* ------------------------------------------------------------------ *)

\* the statements of the walk inside the body of the module loop, of the
\* lesson loop and of the item loop, and those from the poll on
InModuleBody ==
    pc \in {"lesson_loop", "lesson_goc", "lesson_exit", "lesson_items",
            "item_loop", "item_goc", "item_exit", "dispatch"}
InLessonBody ==
    pc \in {"lesson_items", "item_loop", "item_goc", "item_exit", "dispatch"}
AfterWalk == pc \in {"poll", "ref_loop", "ref_goc", "ref_exit", "ref_extract"}

\* the table of the kind has a row for the external id
HasRow(kind, ext_id) == \E r \in db[kind] : r[IdColumn(kind)] = ext_id

\* the items the walk of page p reaches
ReachedItemIds(p) == ReachedIds(p) \ {r.id : r \in Range(Page(p).refs)}

\* C17: within a run a parent's get-or-create comes before its children's
\* and an entity's before its extraction: while the lessons of a module
\* are handled the Module row is there and db_module is its key; while
\* the items of a lesson are handled the Lesson row is there and db_lesson
\* is its key; when the dispatch of an item is reached, and for every item
\* extraction logged, the Item row is there; when the extraction of a
\* reference is reached, and for every one logged, the Reference row is
\* there; and the references are polled only after the last module was
\* walked: before the poll no reference is known, from the poll on every
\* module, lesson and item has been handled.
C17_PersistThenExtract ==
    /\ InModuleBody =>
           \E r \in db.Module : r.module_id = module.id /\ r.id = db_module
    /\ InLessonBody =>
           \E r \in db.Lesson : r.lesson_id = section.id /\ r.id = db_lesson
    /\ pc = "dispatch" => HasRow("Item", lecture.id)
    /\ \A e \in ItemEntries : HasRow("Item", e.id)
    /\ pc = "ref_extract" => HasRow("Reference", json_reference.id)
    /\ \A e \in RefEntries : HasRow("Reference", e.id)
    /\ (InModuleBody \/ pc \in {"module_loop", "module_goc", "module_exit"}) =>
           /\ json_references = <<>>
           /\ RefEntries = {}
    /\ AfterWalk =>
           /\ mi = Len(all_modules)
           /\ {e.id : e \in ItemEntries} = ReachedItemIds(page)

\* the second reference of page C is about to be extracted: its row is
\* written, the first reference and the items before it were extracted,
\* each with its row
C17_Witness ==
    /\ pc = "ref_extract"
    /\ page = "C"
    /\ ri = 2
    /\ HasRow("Reference", json_reference.id)
    /\ Cardinality(RefEntries) = 1
    /\ \E e \in ItemEntries : Called(e) /\ HasRow("Item", e.id)

(* ------------------------------------------------------------------ *)
(* C18                                                                *)
(* ------------------------------------------------------------------ *)

\* the statement that enters the `with database:` block of a kind, and the
\* one that leaves it
GocOf(kind) ==
    CASE kind = "Module" -> "module_goc"
      [] kind = "Lesson" -> "lesson_goc"
      [] kind = "Item" -> "item_goc"
      [] OTHER -> "ref_goc"
ExitOf(kind) ==
    CASE kind = "Module" -> "module_exit"
      [] kind = "Lesson" -> "lesson_exit"
      [] kind = "Item" -> "item_exit"
      [] OTHER -> "ref_exit"

\* the statements that call out: an extraction routine, the flat index,
\* the reference poll
CallsOut == {"dispatch", "ref_extract", "lesson_items", "poll"}

\* what C18 asks of one step of the walk
ScopedStep ==
    /\ scope' # "none" =>
        /\ scope = "none"
        /\ pc = GocOf(scope')
        /\ pc' = ExitOf(scope')
        /\ \A kind \in Kinds \ {scope'} : db'[kind] = db[kind]
        /\ Cardinality(db'[scope'] \ db[scope']) <= 1
    /\ scope # "none" =>
        /\ scope' = "none"
        /\ db' = db
    /\ pc \in CallsOut => scope = "none" /\ scope' = "none" /\ db' = db
    /\ pc' = "raised" => scope' = "none" /\ db' = db

\* C18: a scope opened by the walk holds the get-or-create of one entity
\* and nothing else: the step that opens it is the get-or-create of its
\* kind, which writes at most one row, of that kind; the step after it
\* closes it and writes nothing; no scope is open before, during or after
\* a step that calls an extraction routine, the flat index or the
\* reference poll; and a step that ends in an exception leaves no scope
\* open and every row as it was.
C18_TransactionScoping == [][ScopedStep]_vars

\* the scope of the second lesson written by the run is open, after an
\* extraction was made in between: earlier rows are committed
C18_Witness ==
    /\ scope = "Lesson"
    /\ pc = "lesson_exit"
    /\ Cardinality(db.Lesson) = Cardinality(db_start.Lesson) + 2
    /\ \E e \in ItemEntries : Called(e)

(* ------------------------------------------------------------------ *)
(* C19                                                                *)
(* ------------------------------------------------------------------ *)

\* C19: the flag of an extractor is false until its first call of the
\* notebook routine and true from the moment that call has returned,
\* whatever it returned, for as long as the extractor lives: over all the
\* get_modules calls made on one extractor the notebook routine is called
\* at most once, and a run whose log holds a notebook call made it with
\* the flag unset and left it set.
C19_NotebookGuard ==
    /\ notebook_calls <= 1
    /\ notebook_downloaded <=> notebook_calls = 1
    /\ Cardinality(NotebookCalls) <= notebook_calls \/ Idle
    /\ (~Idle /\ NotebookCalls # {}) => notebook_downloaded

\* a second get_modules call on the same extractor has returned: it walked
\* notebook items with download_notebooks set and called the routine for
\* none of them, the extractor having made its one call in the first run
C19_Witness ==
    /\ Returned
    /\ runs = 2
    /\ download_notebooks
    /\ NotebookPositions # {}
    /\ NotebookCalls = {}
    /\ notebook_calls = 1
    /\ notebook_downloaded

(* ------------------------------------------------------------------ *)
(* C20                                                                *)
(* ------------------------------------------------------------------ *)

\* the slugs of the lessons and items of the returned tree, the Resources
\* entry left aside
TreeLessonSlugs ==
    UNION {{modules[a][2][b][1] : b \in 1..Len(modules[a][2])}
           : a \in {x \in 1..Len(modules) : modules[x][1] # "Resources"}}
TreeItemSlugs ==
    UNION {UNION {{modules[a][2][b][2][c][1] : c \in 1..Len(modules[a][2][b][2])}
                  : b \in 1..Len(modules[a][2])}
           : a \in {x \in 1..Len(modules) : modules[x][1] # "Resources"}}

\* C20: when a run returns, the catalog has a Module row for every module
\* of the document, a Lesson row for every lesson of those modules, an
\* Item row (with its type tag) for every item the walk reached, whether
\* its type is unsupported, its gate closed or its extraction empty or
\* failed, and a Reference row for every reference polled, whether or not
\* they are in the tree; so every module, lesson and item of the tree has
\* its row.
C20_CatalogCoversWalk ==
    Returned =>
        /\ \A m \in Range(Page(page).modules) : HasRow("Module", m.id)
        /\ \A l \in LessonsOf(page) : HasRow("Lesson", l.id)
        /\ \A e \in ItemEntries :
               \E r \in db.Item : r.item_id = e.id /\ r.type_name = e.type_name
        /\ ReachedItemIds(page) \subseteq {r.item_id : r \in db.Item}
        /\ \A r \in Range(Page(page).refs) : HasRow("Reference", r.id)
        /\ \A s \in ModuleSlugs \ {"Resources"} : \E r \in db.Module : r.slug = s
        /\ \A s \in TreeLessonSlugs : \E r \in db.Lesson : r.slug = s
        /\ \A s \in TreeItemSlugs : \E r \in db.Item : r.slug = s

\* a returned run over page C whose tree is empty: its module, its lesson,
\* the supplement that failed, the widget, the peer assignment that
\* yielded nothing and the two references all have their rows
C20_Witness ==
    /\ Returned
    /\ page = "C"
    /\ modules = <<>>
    /\ error_occurred
    /\ HasRow("Module", "m5")
    /\ HasRow("Lesson", "l6")
    /\ {"i9", "i10", "i11"} \subseteq {r.item_id : r \in db.Item}
    /\ {"r2", "r3"} \subseteq {r.ref_id : r \in db.Reference}
    /\ \E e \in ItemEntries : e.id = "i9" /\ e.links = LinksNone
    /\ \E e \in ItemEntries : e.id = "i10" /\ e.links = LinksEmpty

====
